---- MODULE Spec2Model ----
(***************************************************************************)
(* Model of the ClickUp mirroring pipeline of IMMORTAL-CORD                *)
(* (clickup-manager.js: mirrorFilesToClickUp, getExistingTasks,            *)
(* createTaskMap, getOrCreateMainList, createTask, updateTask,             *)
(* saveTaskIndex) together with the task index file it keeps on disk and   *)
(* the remote task store it talks to.                                      *)
(***************************************************************************)
EXTENDS Integers, Sequences, FiniteSets, TLC

\* ---------------------------------------------------------------- bounds
MaxFiles == 2      \* longest listing handed to one pass
MaxPasses == 2     \* passes run in one behaviour
MaxFaults == 1     \* requests / writes the environment lets fail in one behaviour

FileIds == {"f1", "f2"}

\* ------------------------------------------------------- JavaScript values
Absent == "<absent>"        \* the object has no such property
Undefined == "<undefined>"  \* the value undefined
NoNumber == -1              \* undefined where a number is expected
Null == -2                  \* null where a number is expected

\* obj.prop: reading a property that does not exist yields undefined
Prop(v) == IF v = Absent THEN Undefined ELSE v

\* if (v): undefined, a missing property and '' are falsy, other strings truthy
Truthy(v) == v \notin {Absent, Undefined, ""}

\* the id the task store gives to the n-th task it creates
TaskIdOf(n) == "t" \o ToString(n)

\* An element of an index's tasks array, or a result of a pass.  kind is
\* "object" for a record, "null" / "number" for a JSON value that is not a
\* record, "undefined" for no value at all (a map lookup that found nothing).
TaskObj(id, fileId) == [id |-> id, fileId |-> fileId]
NoTaskObj == TaskObj(Absent, Absent)
Entry(kind, action, fileId, taskId, id, task) ==
  [kind |-> kind, action |-> action, fileId |-> fileId, taskId |-> taskId,
   id |-> id, task |-> task]
NonRecord(kind) == Entry(kind, Absent, Absent, Absent, Absent, NoTaskObj)
NoEntry == NonRecord("undefined")

\* ------------------------------------------------------------- index file
\* kind: "missing" (no file), "unreadable" (readFileSync throws), "badjson"
\* (JSON.parse throws), "null" (the JSON document null), "object".
\* tasksKind (of an object): "absent", "number", "object", "array".
IndexFile(kind, generatedAt, totalTasks, tasksKind, tasks) ==
  [kind |-> kind, generatedAt |-> generatedAt, totalTasks |-> totalTasks,
   tasksKind |-> tasksKind, tasks |-> tasks]
NoFile == IndexFile("missing", NoNumber, NoNumber, "absent", <<>>)
BrokenFile(kind) == IndexFile(kind, NoNumber, NoNumber, "absent", <<>>)
ShapelessFile(tasksKind, tasks) == IndexFile("object", NoNumber, NoNumber, tasksKind, tasks)

\* Files found on disk before the first pass: none, or one that is not an index.
InitialFiles ==
  { NoFile, BrokenFile("unreadable"), BrokenFile("badjson"), BrokenFile("null"),
    ShapelessFile("absent", <<>>), ShapelessFile("number", <<>>),
    ShapelessFile("object", <<>>),
    ShapelessFile("array", <<NonRecord("null")>>),
    ShapelessFile("array", <<NonRecord("number")>>) }

\* JSON.stringify leaves out a property whose value is undefined
JSONValue(v) == IF v = Undefined THEN Absent ELSE v
StringifyEntry_flat(e) ==
  Entry(e.kind, JSONValue(e.action), JSONValue(e.fileId), JSONValue(e.taskId),
        JSONValue(e.id), NoTaskObj)
StringifyEntry(e) ==
  Entry(e.kind, JSONValue(e.action), JSONValue(e.fileId), JSONValue(e.taskId),
        JSONValue(e.id), TaskObj(JSONValue(e.task.id), JSONValue(e.task.fileId)))
Stringify_created(tasks) ==
  LET IsCreated(e) == e.action = "created"
      kept == SelectSeq(tasks, IsCreated)
  IN [i \in 1..Len(kept) |-> StringifyEntry(kept[i])]
Stringify(tasks) == [i \in 1..Len(tasks) |-> StringifyEntry(tasks[i])]

\* The value getExistingTasks returns: [kind, items] with kind "array" for a
\* list, or "number" / "object" for a truthy tasks property that is no list.
TasksValue(kind, items) == [kind |-> kind, items |-> items]
EmptyArray == TasksValue("array", <<>>)

getExistingTasks(file) ==
  IF file.kind = "missing" THEN EmptyArray                     \* existsSync false
  ELSE IF file.kind \in {"unreadable", "badjson", "null"} THEN EmptyArray  \* catch
  ELSE IF file.tasksKind = "absent" THEN EmptyArray            \* tasks || []
  ELSE TasksValue(file.tasksKind, file.tasks)

\* createTaskMap: for (const task of tasks) if (task.fileId) map[task.fileId] = task
\* It throws when tasks is not iterable and when an element is null.
\* the key createTaskMap files a task under: task.fileId (lines 203-204)
TaskKey_id(task) == Prop(task.id)
TaskKey(task) == Prop(task.fileId)

RECURSIVE TaskMapOf(_)
TaskMapOf(items) ==
  IF items = <<>> THEN [f \in FileIds |-> NoEntry]
  ELSE LET n == Len(items)
           before == TaskMapOf(SubSeq(items, 1, n - 1))
           task == items[n]
       IN IF task.kind = "object" /\ Truthy(TaskKey(task)) /\ TaskKey(task) \in FileIds
          THEN [before EXCEPT ![TaskKey(task)] = task]
          ELSE before

createTaskMap(tasks) ==
  IF tasks.kind # "array"
  THEN [threw |-> TRUE, message |-> "tasks is not iterable", map |-> TaskMapOf(<<>>)]
  ELSE IF \E i \in 1..Len(tasks.items) : tasks.items[i].kind = "null"
  THEN [threw |-> TRUE, message |-> "Cannot read properties of null (reading 'fileId')",
        map |-> TaskMapOf(<<>>)]
  ELSE [threw |-> FALSE, message |-> "", map |-> TaskMapOf(tasks.items)]

\* saveTaskIndex builds {generatedAt, totalTasks: tasks.length, tasks} and
\* writes its JSON text.
TotalTasksOf_created(tasks) ==
  Cardinality({i \in 1..Len(tasks) : tasks[i].action = "created"})
TotalTasksOf(tasks) == Len(tasks)
saveTaskIndex(tasks, time) ==
  IndexFile("object", time, TotalTasksOf(tasks), "array", Stringify(tasks))

\* how the write of saveTaskIndex ends: the text is written; mkdirSync or
\* writeFileSync throws before the file is opened, leaving the file alone;
\* or writeFileSync throws at the write, after the open emptied the file
\* (ENOSPC), leaving a text that is cut off.  The catch returns null.
WriteOutcomes == {"written", "refused", "cut"}
IndexAfterWrite(file, tasks, time, outcome) ==
  IF outcome = "written" THEN saveTaskIndex(tasks, time)
  ELSE IF outcome = "cut" THEN IndexFile("badjson", NoNumber, NoNumber, "absent", <<>>)
  ELSE file

\* ------------------------------------------------------------ task store
\* The containers of the store that carry our names: a sequence of
\* 'IMMORTAL STACK' spaces, each a sequence of its 'Drive Files' folders,
\* each the number of its 'File Tasks' lists.  A container is named by its
\* position; find() takes the first of the response.
NoContainers == <<>>
ListRef(s, f, l) == [space |-> s, folder |-> f, list |-> l]
NoList == ListRef(0, 0, 0)

\* spacesResponse.data.spaces.find(space => space.name === 'IMMORTAL STACK')
FindSpace_never(c) == 0
FindSpace(c) == IF Len(c) >= 1 THEN 1 ELSE 0
\* foldersResponse.data.folders.find(folder => folder.name === 'Drive Files')
FindFolder(c, s) == IF Len(c[s]) >= 1 THEN 1 ELSE 0
\* listsResponse.data.lists.find(list => list.name === 'File Tasks')
FindList(c, s, f) == IF c[s][f] >= 1 THEN 1 ELSE 0

\* getOrCreateMainList issues up to six requests, in this order:
\*   1 GET spaces   2 POST space    (only if no 'IMMORTAL STACK' space was found)
\*   3 GET folders  4 POST folder   (only if no 'Drive Files' folder was found)
\*   5 GET lists    6 POST list     (only if no 'File Tasks' list was found)
\* Its locals: step is the request it issues next (7: it returns), space,
\* folder and list are immortalSpace, driveFolder and fileTasksList (0: none).
Resolving(step, s, f, l) == [step |-> step, space |-> s, folder |-> f, list |-> l]
StartResolve == Resolving(1, 0, 0, 0)
Returns == 7

\* One request of getOrCreateMainList answered by the store holding c.
\* A request that fails makes axios throw, and the catch rethrows.
ResolveStep(c, r, ok) ==
  IF ~ok THEN [threw |-> TRUE, containers |-> c, r |-> r]
  ELSE IF r.step = 1
  THEN LET s == FindSpace(c)
       IN [threw |-> FALSE, containers |-> c,
           r |-> Resolving(IF s = 0 THEN 2 ELSE 3, s, 0, 0)]
  ELSE IF r.step = 2
  THEN LET c2 == Append(c, <<>>)
       IN [threw |-> FALSE, containers |-> c2, r |-> Resolving(3, Len(c2), 0, 0)]
  ELSE IF r.step = 3
  THEN LET f == FindFolder(c, r.space)
       IN [threw |-> FALSE, containers |-> c,
           r |-> Resolving(IF f = 0 THEN 4 ELSE 5, r.space, f, 0)]
  ELSE IF r.step = 4
  THEN LET c2 == [c EXCEPT ![r.space] = Append(@, 0)]
       IN [threw |-> FALSE, containers |-> c2,
           r |-> Resolving(5, r.space, Len(c2[r.space]), 0)]
  ELSE IF r.step = 5
  THEN LET l == FindList(c, r.space, r.folder)
       IN [threw |-> FALSE, containers |-> c,
           r |-> Resolving(IF l = 0 THEN 6 ELSE Returns, r.space, r.folder, l)]
  ELSE LET c2 == [c EXCEPT ![r.space][r.folder] = @ + 1]
       IN [threw |-> FALSE, containers |-> c2,
           r |-> Resolving(Returns, r.space, r.folder, c2[r.space][r.folder])]

\* getOrCreateMainList run from r without anything else touching the store;
\* failAt is the request the store fails (0: none), reqs the requests issued.
RECURSIVE RunResolve(_, _, _, _)
RunResolve(c, r, failAt, reqs) ==
  IF r.step = Returns
  THEN [threw |-> FALSE, list |-> ListRef(r.space, r.folder, r.list),
        containers |-> c, requests |-> reqs]
  ELSE LET x == ResolveStep(c, r, r.step # failAt)
       IN IF x.threw
          THEN [threw |-> TRUE, list |-> NoList, containers |-> c,
                requests |-> Append(reqs, r.step)]
          ELSE RunResolve(x.containers, x.r, failAt, Append(reqs, r.step))

getOrCreateMainList(c, failAt) == RunResolve(c, StartResolve, failAt, <<>>)

RemoteTask(id, fileId) == [id |-> id, fileId |-> fileId]

\* createTask: POST list/<listId>/task; the response is the new task, to
\* which the file id is added.  A failed request rethrows.
createTask(file, store, ok) ==
  LET newId == TaskIdOf(Len(store) + 1)
  IN [threw |-> ~ok,
      task |-> IF ok THEN TaskObj(newId, file) ELSE NoTaskObj,
      store |-> IF ok THEN Append(store, RemoteTask(newId, file)) ELSE store]

\* updateTask: PUT task/<taskId>; the response is the task of that id, to
\* which the file id is added.  A failed request rethrows.
updateTask(taskId, file, store, ok) ==
  [threw |-> ~ok,
   task |-> IF ok THEN TaskObj(taskId, file) ELSE NoTaskObj,
   store |-> store]

\* The id handed to updateTask for a record found in the index (line 137).
ExistingTaskId(existingTask) == Prop(existingTask.id)

\* if (existingTask) at line 135
Found_id(existingTask) == existingTask.kind # "undefined" /\ Truthy(existingTask.id)
Found(existingTask) == existingTask.kind # "undefined"

\* The catch of the per-file try (lines 154-156): log, keep results, go on.
CatchFileError_abort(res) == [results |-> res, goOn |-> FALSE]
CatchFileError(res) == [results |-> res, goOn |-> TRUE]

\* One iteration of the loop of mirrorFilesToClickUp (lines 130-157).
ProcessOne(file, map, res, store, ok) ==
  LET existingTask == map[file]
  IN IF Found(existingTask)
     THEN LET taskId == ExistingTaskId(existingTask)
              r == updateTask(taskId, file, store, ok)
          IN [call |-> [op |-> "update", fileId |-> file, taskId |-> taskId, ok |-> ~r.threw],
              store |-> r.store,
              after |-> IF r.threw THEN CatchFileError(res)
                        ELSE [results |-> Append(res,
                                Entry("object", "updated", file, taskId, Absent, r.task)),
                              goOn |-> TRUE]]
     ELSE LET r == createTask(file, store, ok)
          IN [call |-> [op |-> "create", fileId |-> file, taskId |-> r.task.id, ok |-> ~r.threw],
              store |-> r.store,
              after |-> IF r.threw THEN CatchFileError(res)
                        ELSE [results |-> Append(res,
                                Entry("object", "created", file, r.task.id, Absent, r.task)),
                              goOn |-> TRUE]]

\* ------------------------------------------------------------------ state
VARIABLES
  credentials,     \* vault: "unloaded" (credentials.clickup null) or "loaded"
  disk,            \* the file ClickUp_Task_Index.json
  clock,           \* the time new Date() returns
  remoteTasks,     \* tasks the store holds, in creation order
  containers,      \* spaces / folders / lists of the store carrying our names
  external,        \* containers created by another client of the store
  scheduledTasks,  \* scheduler.js: task name -> the job cron.schedule returned (0: no key)
  nextRunTimes,    \* scheduler.js: task name -> whether the object has the key
  jobs,            \* every job cron.schedule has created for a task
  firings,         \* cron firings so far
  schedReturn,     \* what the last scheduleTask / stopTask call returned
  lastLog,         \* what the last finished execution of a task logged
  startedUnscheduled, \* a task function was started while its name had no key
  minutes,         \* the argument of convertMinutesToCron
  cronResult,      \* what convertMinutesToCron did with it
  cronDayBase,     \* the cron library's reading of a day-of-month step
  lastFiring,      \* minute of the month the expression last fired at (-1: not yet)
  gap,             \* minutes between its last two firings (-1: fewer than two)
  cronFirings,     \* firings of the expression so far
  memFile,         \* main.js: the file memory-core.json
  memoryState,     \* main.js: global.memoryState, the in-memory fallback
  nextId,          \* the next value generateSystemId() draws
  memClock,        \* the time new Date() returns in main.js
  starts,          \* process starts so far
  ticks,           \* heartbeat ticks of the running process
  ioFaults,        \* file operations of main.js that failed
  taskCount,       \* what the latest getTaskCount() call returned
  countedAt,       \* that call's time: the lastSyncTime it saw, the time since
  taskCountCache,  \* module variable: Null, a count, or NoNumber (undefined)
  lastSyncTime,    \* module variable: Null or a time
  pc,              \* where the pass stands: "idle", "load", "resolve", "loop", "save", "cache"
  taggedFiles,     \* argument of the pass (file ids)
  existingTasks,   \* local of the pass: what getExistingTasks returned
  existingTaskMap, \* local of the pass
  mainList,        \* local of the pass (mainList.id)
  listCall,        \* locals of the pass's getOrCreateMainList call
  listRequests,    \* requests getOrCreateMainList issued for the pass
  idx,             \* position of the loop in taggedFiles
  results,         \* local of the pass
  returned,        \* value the pass returned (<<>> while it runs)
  rejected,        \* the pass threw to its caller
  status,          \* "none", "running", "completed" (line 167), "failed" (line 171)
  lastError,       \* message logged at line 169 by the last pass
  passNo,          \* passes started
  calls,           \* create / update calls the pass has issued
  saveCalls,       \* saveTaskIndex calls of the pass
  saved,           \* the pass's index write succeeded
  startDisk,       \* the index file as the pass found it
  callNo,          \* the pass's place among the calls awaiting at line 121 (0: none)
  wrote,           \* the index file as the pass's saveTaskIndex left it
  waiting,         \* the locals of the other pass: one awaiting, or one over
  overlapped,      \* a pass was started while another was awaiting
  prevPass,        \* listing and outcome of the pass before
  indexWritten,    \* the file on disk is one saveTaskIndex wrote
  faults           \* failures injected so far

storeVars == <<remoteTasks, containers>>
cacheVars == <<taskCountCache, lastSyncTime>>
passVars == <<pc, taggedFiles, existingTasks, existingTaskMap, mainList, listCall,
              listRequests,
              idx, results, returned, rejected, status, lastError, passNo, calls,
              saveCalls, saved, startDisk, prevPass, callNo, wrote, waiting,
              overlapped>>
mirrorVars == <<credentials, disk, clock, storeVars, cacheVars, passVars,
                indexWritten, faults>>
resolveVars == <<external>>
\* everything a request of getOrCreateMainList leaves alone
besideContainers == <<credentials, disk, clock, remoteTasks, cacheVars, passVars,
                      indexWritten, faults>>
schedVars == <<scheduledTasks, nextRunTimes, jobs, firings, schedReturn, lastLog,
               startedUnscheduled>>
cronVars == <<minutes, cronResult, cronDayBase, lastFiring, gap, cronFirings>>
memVars == <<memFile, memoryState, nextId, memClock, starts, ticks, ioFaults>>
countVars == <<taskCount, countedAt>>
otherVars == <<schedVars, cronVars, memVars, countVars>>

vars == <<mirrorVars, resolveVars, otherVars>>

RECURSIVE SeqsUpTo(_, _)
SeqsUpTo(S, n) ==
  IF n = 0 THEN {<<>>}
  ELSE LET shorter == SeqsUpTo(S, n - 1)
       IN shorter \cup {Append(s, x) : s \in {t \in shorter : Len(t) = n - 1}, x \in S}

Listings == SeqsUpTo(FileIds, MaxFiles)

\* file ids of the records of an index file
RecordedIds(file) ==
  IF file.kind = "object" /\ file.tasksKind = "array"
  THEN {file.tasks[i].fileId : i \in {j \in 1..Len(file.tasks) : file.tasks[j].kind = "object"}}
       \cap FileIds
  ELSE {}

\* ids of the listing the pass was given
ListedIds == {taggedFiles[i] : i \in 1..Len(taggedFiles)}

\* every call of the pass succeeded with a create, and the index was saved
CleanCreatePass ==
  /\ status = "completed" /\ saved
  /\ Len(calls) = Len(taggedFiles)
  /\ \A i \in 1..Len(calls) : calls[i].op = "create" /\ calls[i].ok

\* What is kept of the pass before: whether it created a task for every
\* item and saved the index (clean) and, if so, its listing; whether a pass
\* has resolved the list; whether its listing held every id recorded in the
\* index it loaded (covering).
PrevPass(files, clean, resolved, covering) ==
  [files |-> IF clean THEN files ELSE <<>>, clean |-> clean, resolved |-> resolved,
   covering |-> covering]
NoPrevPass == PrevPass(<<>>, FALSE, FALSE, FALSE)

\* the locals of a call of mirrorFilesToClickUp; NoPass is no call
NoPass ==
  [pc |-> "idle", taggedFiles |-> <<>>, existingTasks |-> EmptyArray,
   existingTaskMap |-> TaskMapOf(<<>>), mainList |-> NoList, listCall |-> StartResolve,
   listRequests |-> <<>>, idx |-> 1, results |-> <<>>, returned |-> <<>>,
   rejected |-> FALSE, status |-> "none", lastError |-> "", calls |-> <<>>,
   saveCalls |-> 0, saved |-> FALSE, startDisk |-> NoFile, prevPass |-> NoPrevPass,
   callNo |-> 0, wrote |-> NoFile]
ThisPass ==
  [pc |-> pc, taggedFiles |-> taggedFiles, existingTasks |-> existingTasks,
   existingTaskMap |-> existingTaskMap, mainList |-> mainList, listCall |-> listCall,
   listRequests |-> listRequests, idx |-> idx, results |-> results,
   returned |-> returned, rejected |-> rejected, status |-> status,
   lastError |-> lastError, calls |-> calls, saveCalls |-> saveCalls, saved |-> saved,
   startDisk |-> startDisk, prevPass |-> prevPass, callNo |-> callNo,
   wrote |-> wrote]

\* clickup-manager.js as loaded, no pass run yet
ModuleIdle ==
  /\ clock = 1
  /\ taskCountCache = Null
  /\ lastSyncTime = Null
  /\ pc = "idle"
  /\ taggedFiles = <<>>
  /\ existingTasks = EmptyArray
  /\ existingTaskMap = TaskMapOf(<<>>)
  /\ mainList = NoList
  /\ listCall = StartResolve
  /\ listRequests = <<>>
  /\ idx = 1
  /\ results = <<>>
  /\ returned = <<>>
  /\ rejected = FALSE
  /\ status = "none"
  /\ lastError = ""
  /\ passNo = 0
  /\ calls = <<>>
  /\ saveCalls = 0
  /\ saved = FALSE
  /\ startDisk = NoFile
  /\ prevPass = NoPrevPass
  /\ callNo = 0
  /\ wrote = NoFile
  /\ waiting = NoPass
  /\ overlapped = FALSE
  /\ indexWritten = FALSE
  /\ faults = 0

\* the module as loaded and a workspace holding nothing of ours
MirrorIdle ==
  /\ ModuleIdle
  /\ remoteTasks = <<>>
  /\ containers = NoContainers

ResolveIdle ==
  /\ external = 0

\* scheduler.js as loaded: scheduledTasks = {}, nextRunTimes = {}
TaskNames == {"scan", "ping"}
SchedIdle ==
  /\ scheduledTasks = [n \in TaskNames |-> 0]
  /\ nextRunTimes = [n \in TaskNames |-> FALSE]
  /\ jobs = <<>>
  /\ firings = 0
  /\ schedReturn = "none"
  /\ lastLog = "none"
  /\ startedUnscheduled = FALSE

\* a field of a cron expression: *, */n or n
Every == [kind |-> "any", n |-> 0]
Step(n) == [kind |-> "step", n |-> n]
Value(n) == [kind |-> "value", n |-> n]
CronExpr(minute, hour, dom) ==
  [minute |-> minute, hour |-> hour, dom |-> dom, month |-> Every, dow |-> Every]
NoExpr == CronExpr(Every, Every, Every)

\* no interval converted yet
NoCron == [called |-> FALSE, threw |-> FALSE, expr |-> NoExpr, text |-> ""]
CronIdle ==
  /\ minutes = 1
  /\ cronResult = NoCron
  /\ cronDayBase = 0
  /\ lastFiring = -1
  /\ gap = -1
  /\ cronFirings = 0

\* a memory: the object initializeMemory builds, plus lastPing (0: the
\* property is absent); fragments tells whether memoryFragments is there
Memory(id, created, awakened, count, fragments, ping, state, thought) ==
  [systemId |-> id, createdAt |-> created, lastAwakening |-> awakened,
   awakeningCount |-> count, memoryFragments |-> fragments, lastPing |-> ping,
   state |-> state, lastThought |-> thought]
NoMemory == Memory(0, 0, 0, 0, "absent", 0, "none", "none")

\* the length of the text JSON.stringify(memory, null, 2) of a heartbeat
\* write, up to the part every heartbeat write shares: each one carries a
\* lastPing and the state 'active', so the texts differ in length by the
\* thought alone
TextLength(m) == Len(m.lastThought)

\* memory-core.json: missing, holding text JSON.parse refuses (an empty file,
\* or a text followed by the rest of a longer one), or holding a memory;
\* size is the length of its text
MissingMemory == [kind |-> "missing", mem |-> NoMemory, size |-> 0]
UnparsableMemory(size) == [kind |-> "corrupt", mem |-> NoMemory, size |-> size]
MemoryFile(m) == [kind |-> "object", mem |-> m, size |-> TextLength(m)]

\* global.memoryState: undefined, or the fallback structure
NoFallback == [present |-> FALSE, mem |-> NoMemory]
Fallback(m) == [present |-> TRUE, mem |-> m]

\* main.js before its first start
MemIdle ==
  /\ memFile = MissingMemory
  /\ memoryState = NoFallback
  /\ nextId = 1
  /\ memClock = 1
  /\ starts = 0
  /\ ticks = <<>>
  /\ ioFaults = 0

\* getTaskCount not called yet
CountIdle ==
  /\ taskCount = NoNumber
  /\ countedAt = [sync |-> Null, elapsed |-> 0]

\* vault.loadEnvironment (lines 566-636): credentials.clickup is assigned
\* when the .env file exists and every required variable is set (not
\* empty); otherwise the call returns {loaded: false} and assigns nothing.
loadEnvironment(creds, envSet) == IF envSet THEN "loaded" ELSE creds

\* the process has started on a fresh installation
Init ==
  /\ credentials = "unloaded"
  /\ disk = NoFile
  /\ MirrorIdle
  /\ ResolveIdle
  /\ SchedIdle
  /\ CronIdle
  /\ MemIdle
  /\ CountIdle

\* lines 114-118: getClickUpCredentials() reads credentials.clickup.apiKey,
\* which throws a TypeError while credentials.clickup is still null; an
\* empty apiKey or workspaceId ("empty") throws 'Missing ClickUp
\* credentials', a value loadEnvironment never assigns.
\* The message of the error thrown, "" if none.
CredentialsError_none(creds) == ""
CredentialsError(creds) ==
  IF creds = "unloaded" THEN "Cannot read properties of null (reading 'apiKey')"
  ELSE IF creds = "empty" THEN "Missing ClickUp credentials"
  ELSE ""

\* The outer catch (lines 168-172) logs the error and returns []: the
\* promise of the pass is fulfilled, never rejected.
OuterCatch_rethrow == [returned |-> <<>>, rejected |-> TRUE]
OuterCatch == [returned |-> <<>>, rejected |-> FALSE]

\* line 160: the array handed to saveTaskIndex is this pass's results; the
\* records loaded at line 121 are not part of it.
IndexedTasks_merged(res, loaded) == loaded \o res
IndexedTasks(res, loaded) == res

\* lines 160-167: the value saveTaskIndex returned (null when the write
\* failed) is dropped; the count cache is set and results is returned
\* whether or not the index was written.
PassResult_lost(res, written) ==
  [returned |-> IF written THEN res ELSE <<>>, rejected |-> FALSE, count |-> Len(res)]
PassResult(res, written) ==
  [returned |-> res, rejected |-> FALSE, count |-> Len(res)]

Fail(message) ==
  /\ pc' = "idle"
  /\ status' = "failed"
  /\ lastError' = message
  /\ returned' = OuterCatch.returned
  /\ rejected' = OuterCatch.rejected

\* the exported vault.loadEnvironment() is called
LoadEnvironment(envSet) ==
  /\ credentials' = loadEnvironment(credentials, envSet)
  /\ UNCHANGED <<disk, clock, storeVars, cacheVars, passVars, indexWritten, faults>>
  /\ UNCHANGED <<callNo, wrote, waiting, overlapped, resolveVars, otherVars>>

\* mirrorFilesToClickUp, lines 110-122: credentials, index, task map.  The
\* function takes no lock: it can be called while an earlier call is
\* awaiting (Switch), and the two passes then run in turns.  The action
\* ends where the call first yields: at the await of line 121, after
\* getExistingTasks has read the file, or in the outer catch when the
\* credentials check threw.
MirrorStart(files) ==
  /\ pc = "idle"
  /\ passNo < MaxPasses
  /\ passNo' = passNo + 1
  /\ prevPass' = PrevPass(taggedFiles, CleanCreatePass,
                          prevPass.resolved \/ mainList # NoList,
                          RecordedIds(startDisk) \subseteq ListedIds)
  /\ taggedFiles' = files
  /\ startDisk' = disk
  /\ calls' = <<>>
  /\ saveCalls' = 0
  /\ saved' = FALSE
  /\ results' = <<>>
  /\ idx' = 1
  /\ mainList' = NoList
  /\ listCall' = StartResolve
  /\ listRequests' = <<>>
  /\ IF CredentialsError(credentials) # ""
     THEN /\ Fail(CredentialsError(credentials))
          /\ existingTasks' = EmptyArray
          /\ existingTaskMap' = TaskMapOf(<<>>)
     ELSE /\ existingTasks' = getExistingTasks(disk)
          /\ existingTaskMap' = TaskMapOf(<<>>)
          /\ pc' = "load"
          /\ status' = "running"
          /\ lastError' = ""
          /\ returned' = <<>>
          /\ rejected' = FALSE
  /\ callNo' = IF CredentialsError(credentials) # "" THEN 0
               ELSE IF waiting.pc = "load" THEN waiting.callNo + 1 ELSE 1
  /\ wrote' = NoFile
  /\ overlapped' = (overlapped \/ waiting.pc # "idle")
  /\ UNCHANGED <<credentials, disk, clock, storeVars, cacheVars, indexWritten, faults>>
  /\ UNCHANGED <<waiting, resolveVars, otherVars>>

\* lines 121-125: the call resumes after the await of line 121 and builds
\* the task map; createTaskMap is outside getExistingTasks' try, so what it
\* throws ends the pass in the outer catch.  Otherwise the call goes on to
\* getOrCreateMainList, which issues its first request and awaits it.
\* The calls awaiting at line 121 resume in the order they were made.
BuildTaskMap ==
  /\ pc = "load"
  /\ waiting.pc = "load" => callNo < waiting.callNo
  /\ LET m == createTaskMap(existingTasks)
     IN IF m.threw
        THEN Fail(m.message) /\ UNCHANGED existingTaskMap
        ELSE /\ pc' = "resolve"
             /\ existingTaskMap' = m.map
             /\ UNCHANGED <<status, lastError, returned, rejected>>
  /\ UNCHANGED <<credentials, disk, clock, storeVars, cacheVars, taggedFiles,
                 existingTasks, mainList, listCall, listRequests, idx, results, passNo,
                 calls, saveCalls, saved, startDisk, prevPass, indexWritten, faults>>
  /\ callNo' = 0
  /\ UNCHANGED <<wrote, waiting, overlapped, resolveVars, otherVars>>

\* the container the next POST of the resolution would create has, by now,
\* been created under the same parent (by another pass or another client)
NameTaken(c, r) ==
  \/ r.step = 2 /\ Len(c) >= 1
  \/ r.step = 4 /\ Len(c[r.space]) >= 1
  \/ r.step = 6 /\ c[r.space][r.folder] >= 1

\* line 125, const mainList = await getOrCreateMainList(clickupCreds): the
\* store answers the request the call is awaiting, which it does only after
\* a call awaiting at line 121 has resumed (that await is over within the
\* turn, a response arrives in a later one).  A request that fails
\* makes getOrCreateMainList throw, which ends the pass in the outer catch.
\* Besides the failures the environment injects, the store may refuse a
\* POST because the name is taken; whether it refuses or creates a second
\* container of that name is the store's.
ListRequest(ok) ==
  /\ pc = "resolve"
  /\ waiting.pc # "load"
  /\ ok \/ faults < MaxFaults \/ NameTaken(containers, listCall)
  /\ LET x == ResolveStep(containers, listCall, ok)
     IN /\ containers' = x.containers
        /\ listRequests' = Append(listRequests, listCall.step)
        /\ listCall' = x.r
        /\ IF x.threw
           THEN /\ Fail("Failed to get or create main list")
                /\ faults' = IF NameTaken(containers, listCall) THEN faults
                             ELSE faults + 1
                /\ UNCHANGED mainList
           ELSE IF x.r.step = Returns
           THEN /\ pc' = "loop"
                /\ mainList' = ListRef(x.r.space, x.r.folder, x.r.list)
                /\ UNCHANGED <<status, lastError, returned, rejected, faults>>
           ELSE UNCHANGED <<pc, mainList, status, lastError, returned, rejected, faults>>
  /\ UNCHANGED <<credentials, disk, clock, remoteTasks, cacheVars, taggedFiles,
                 existingTasks, existingTaskMap, idx, results, passNo, calls,
                 saveCalls, saved, startDisk, prevPass, indexWritten>>
  /\ UNCHANGED <<callNo, wrote, waiting, overlapped, resolveVars, otherVars>>

\* line 130, for (const file of taggedFiles): the loop ends when every
\* file has been taken; i is the position of the next file.
LoopOver_early(i, files) == i > Len(files) \/ i > 1
LoopOver(i, files) == i > Len(files)

\* lines 130-157: the loop body for taggedFiles[idx]
ProcessFile(ok) ==
  /\ pc = "loop"
  /\ waiting.pc # "load"
  /\ ~LoopOver(idx, taggedFiles)
  /\ ok \/ faults < MaxFaults
  /\ LET r == ProcessOne(taggedFiles[idx], existingTaskMap, results, remoteTasks, ok)
     IN /\ calls' = Append(calls, r.call)
        /\ remoteTasks' = r.store
        /\ results' = r.after.results
        /\ IF r.after.goOn
           THEN /\ idx' = idx + 1
                /\ UNCHANGED <<pc, status, lastError, returned, rejected>>
           ELSE Fail("file") /\ UNCHANGED idx
  /\ faults' = IF ok THEN faults ELSE faults + 1
  /\ UNCHANGED <<credentials, disk, clock, containers, cacheVars, taggedFiles,
                 existingTasks, existingTaskMap, mainList, listCall, listRequests, passNo,
                 saveCalls, saved, startDisk, prevPass, indexWritten>>
  /\ UNCHANGED <<callNo, wrote, waiting, overlapped, resolveVars, otherVars>>

\* the loop is over
LoopDone ==
  /\ pc = "loop"
  /\ LoopOver(idx, taggedFiles)
  /\ pc' = "save"
  /\ UNCHANGED <<credentials, disk, clock, storeVars, cacheVars, taggedFiles,
                 existingTasks, existingTaskMap, mainList, listCall, listRequests, idx, results,
                 returned, rejected, status, lastError, passNo, calls, saveCalls,
                 saved, startDisk, prevPass, indexWritten, faults>>
  /\ UNCHANGED <<callNo, wrote, waiting, overlapped, resolveVars, otherVars>>

\* lines 159-160: await saveTaskIndex(results).  saveTaskIndex writes the
\* file before it returns; a failed write is caught inside it, and the null
\* it then returns is dropped.
SaveIndex(outcome) ==
  /\ pc = "save"
  /\ outcome = "written" \/ faults < MaxFaults
  /\ disk' = IndexAfterWrite(disk, IndexedTasks(results, existingTasks.items), clock,
                             outcome)
  /\ indexWritten' = IF outcome = "refused" THEN indexWritten ELSE outcome = "written"
  /\ saved' = (outcome = "written")
  /\ saveCalls' = saveCalls + 1
  /\ clock' = clock + 1
  /\ pc' = "cache"
  /\ faults' = IF outcome = "written" THEN faults ELSE faults + 1
  /\ wrote' = IF outcome = "refused" THEN wrote ELSE disk'
  /\ UNCHANGED <<credentials, storeVars, cacheVars, taggedFiles, existingTasks,
                 existingTaskMap, mainList, listCall, listRequests, idx, results, returned,
                 rejected, status, lastError, passNo, calls, startDisk, prevPass>>
  /\ UNCHANGED <<callNo, waiting, overlapped, resolveVars, otherVars>>

\* lines 163-167, after the await: the count cache, return results
CacheAndReturn ==
  /\ pc = "cache"
  /\ taskCountCache' = PassResult(results, saved).count
  /\ lastSyncTime' = clock
  /\ clock' = clock + 1
  /\ returned' = PassResult(results, saved).returned
  /\ rejected' = PassResult(results, saved).rejected
  /\ status' = "completed"
  /\ pc' = "idle"
  /\ UNCHANGED <<credentials, disk, storeVars, taggedFiles, existingTasks,
                 existingTaskMap, mainList, listCall, listRequests, idx, results, lastError,
                 passNo, calls, saveCalls, saved, startDisk, prevPass, indexWritten,
                 faults>>
  /\ UNCHANGED <<callNo, wrote, waiting, overlapped, resolveVars, otherVars>>

\* The pass the model follows is awaiting (or over) and the event loop gives
\* the turn to the other one: the two change places.  A pass awaits at
\* lines 121, 125, 137, 146 and 160.
Switch ==
  /\ pc # "idle" \/ waiting.pc # "idle"
  /\ waiting' = ThisPass
  /\ pc' = waiting.pc
  /\ taggedFiles' = waiting.taggedFiles
  /\ existingTasks' = waiting.existingTasks
  /\ existingTaskMap' = waiting.existingTaskMap
  /\ mainList' = waiting.mainList
  /\ listCall' = waiting.listCall
  /\ listRequests' = waiting.listRequests
  /\ idx' = waiting.idx
  /\ results' = waiting.results
  /\ returned' = waiting.returned
  /\ rejected' = waiting.rejected
  /\ status' = waiting.status
  /\ lastError' = waiting.lastError
  /\ calls' = waiting.calls
  /\ saveCalls' = waiting.saveCalls
  /\ saved' = waiting.saved
  /\ startDisk' = waiting.startDisk
  /\ prevPass' = waiting.prevPass
  /\ callNo' = waiting.callNo
  /\ wrote' = waiting.wrote
  /\ UNCHANGED <<credentials, disk, clock, storeVars, cacheVars, passNo, overlapped,
                 indexWritten, faults, resolveVars, otherVars>>

\* passes run one after the other
Next ==
  \/ \E envSet \in BOOLEAN : LoadEnvironment(envSet)
  \/ \E files \in Listings : MirrorStart(files)
  \/ BuildTaskMap
  \/ \E ok \in BOOLEAN : ListRequest(ok)
  \/ \E ok \in BOOLEAN : ProcessFile(ok)
  \/ LoopDone
  \/ \E outcome \in WriteOutcomes : SaveIndex(outcome)
  \/ CacheAndReturn

Spec == Init /\ [][Next]_vars

\* ------------------------------------------- passes over what the disk holds
\* The process has started with a file at the index's path that is not an
\* index the module wrote.
InitLoad ==
  /\ credentials = "unloaded"
  /\ disk \in InitialFiles \ {NoFile}
  /\ MirrorIdle
  /\ ResolveIdle
  /\ SchedIdle
  /\ CronIdle
  /\ MemIdle
  /\ CountIdle

SpecLoad == InitLoad /\ [][Next]_vars

\* ------------------------------------------------- passes after a restart
\* The process starts again after an earlier run mirrored the file f1: the
\* workspace holds the containers and the task that run created, the disk
\* the index it saved, and the module is as loaded.
EarlierRun == ProcessOne("f1", TaskMapOf(<<>>), <<>>, <<>>, TRUE)

InitRestart ==
  /\ credentials = "loaded"
  /\ disk = saveTaskIndex(IndexedTasks(EarlierRun.after.results, <<>>), 0)
  /\ remoteTasks = EarlierRun.store
  /\ containers = getOrCreateMainList(NoContainers, 0).containers
  /\ ModuleIdle
  /\ ResolveIdle
  /\ SchedIdle
  /\ CronIdle
  /\ MemIdle
  /\ CountIdle

SpecRestart == InitRestart /\ [][Next]_vars

\* ------------------------------------------------------------ getTaskCount
\* (1000 * 60 * 60): the milliseconds of an hour
MsPerHour == 1000 * 60 * 60

\* times since the last sync at which getTaskCount is called
Elapsed == {0, MsPerHour - 1, MsPerHour}

\* getTaskCount (lines 509-533) called elapsed milliseconds after
\* lastSyncTime: the cache while it is less than an hour old, else the
\* totalTasks of the index file, which the cache then takes; 0 without a
\* file and 0 from the catch (the file cannot be read or parsed, or is the
\* document null).  A file without totalTasks gives undefined, which the
\* cache then holds: line 512 tests !== null, so a cached undefined is
\* returned like a count.
getTaskCount(cache, sync, elapsed, file) ==
  IF cache # Null /\ sync # Null /\ elapsed < 1 * MsPerHour
    THEN [returned |-> cache, cache |-> cache]
  ELSE IF file.kind = "object"
    THEN [returned |-> file.totalTasks, cache |-> file.totalTasks]
  ELSE [returned |-> 0, cache |-> cache]

\* a caller asks for the count, between two passes or while a pass is
\* awaiting; time does not run backwards between calls that see the same
\* lastSyncTime
GetTaskCount(elapsed) ==
  LET r == getTaskCount(taskCountCache, lastSyncTime, elapsed, disk)
  IN  /\ countedAt.sync = lastSyncTime => elapsed >= countedAt.elapsed
      /\ taskCount' = r.returned
      /\ taskCountCache' = r.cache
      /\ countedAt' = [sync |-> lastSyncTime, elapsed |-> elapsed]
      /\ UNCHANGED <<credentials, disk, clock, storeVars, lastSyncTime, passVars,
                     indexWritten, faults, resolveVars, schedVars, cronVars, memVars>>

NextCount ==
  \/ Next
  \/ \E elapsed \in Elapsed : GetTaskCount(elapsed)

SpecCount == Init /\ [][NextCount]_vars

\* ------------------------------------- passes beside another client
\* getOrCreateMainList awaits each of its requests, so another client of
\* the same workspace can act between any two of them.
MaxExternal == 2

\* Another client creates the container of the given level (1 space,
\* 2 folder, 3 list) that is still missing.
ExternalCreate(level) ==
  /\ external < MaxExternal
  /\ external' = external + 1
  /\ \/ /\ level = 1 /\ Len(containers) = 0
        /\ containers' = Append(containers, <<>>)
     \/ /\ level = 2 /\ Len(containers) >= 1 /\ Len(containers[1]) = 0
        /\ containers' = [containers EXCEPT ![1] = Append(@, 0)]
     \/ /\ level = 3 /\ Len(containers) >= 1 /\ Len(containers[1]) >= 1
        /\ containers[1][1] = 0
        /\ containers' = [containers EXCEPT ![1][1] = 1]
  /\ UNCHANGED <<besideContainers, otherVars>>

NextResolve ==
  \/ Next
  \/ \E level \in 1..3 : ExternalCreate(level)

SpecResolve == Init /\ [][NextResolve]_vars

\* ------------------------------------------------------ overlapping passes
\* mirrorFilesToClickUp is called again while a pass is awaiting.  The
\* process has started without an index file, or with the file {"tasks": 5},
\* over which every pass ends at line 122.
OverlapFiles == {NoFile, ShapelessFile("number", <<>>)}

InitOverlap ==
  /\ credentials = "unloaded"
  /\ disk \in OverlapFiles
  /\ MirrorIdle
  /\ ResolveIdle
  /\ SchedIdle
  /\ CronIdle
  /\ MemIdle
  /\ CountIdle

NextOverlap ==
  \/ Next
  \/ Switch

SpecOverlap == InitOverlap /\ [][NextOverlap]_vars

\* ------------------------------------------------------------ the scheduler
\* A job is what cron.schedule returns: it calls its callback at every
\* firing of its expression until stop() is called on it.  running counts
\* the callback's executions that are awaiting taskFunction(), started the
\* executions it has begun, lastFailed the value of started when an
\* execution last ended in an error (0: none has).
MaxJobs == 2
MaxFirings == 3

Job(name) ==
  [name |-> name, stopped |-> FALSE, running |-> 0, started |-> 0, lastFailed |-> 0]

\* getNextRunTime(taskName), lines 423-429
getNextRunTime(times, name) == IF times[name] THEN "date" ELSE "Not scheduled"

\* lines 376-381: the awaited taskFunction() settles; a rejection (or a
\* throw) lands in the callback's catch, which logs it.  Nothing is done to
\* the job.
AfterRun_dies(job, threw) ==
  [job EXCEPT !.running = @ - 1,
              !.lastFailed = IF threw THEN job.started ELSE @,
              !.stopped = @ \/ threw]
AfterRun(job, threw) ==
  [job EXCEPT !.running = @ - 1,
              !.lastFailed = IF threw THEN job.started ELSE @]

\* updateNextRunTime: nextRunTimes[taskName] = nextDate.toDate(); an error
\* computing the date is caught and logged, leaving the object as it was.
updateNextRunTime(times, name, ok) ==
  IF ok THEN [times EXCEPT ![name] = TRUE] ELSE times

InitScheduler ==
  /\ credentials = "loaded"
  /\ disk = NoFile
  /\ MirrorIdle
  /\ ResolveIdle
  /\ SchedIdle
  /\ CronIdle
  /\ MemIdle
  /\ CountIdle

\* scheduleTask(taskName, cronExpression, taskFunction); valid is what
\* cron.validate(cronExpression) answers.
scheduleTask(name, valid, nextOk) ==
  /\ valid => Len(jobs) < MaxJobs
  /\ IF ~valid
     THEN /\ schedReturn' = FALSE
          /\ UNCHANGED <<scheduledTasks, nextRunTimes, jobs>>
     ELSE /\ jobs' = Append(jobs, Job(name))
          /\ scheduledTasks' = [scheduledTasks EXCEPT ![name] = Len(jobs) + 1]
          /\ nextRunTimes' = updateNextRunTime(nextRunTimes, name, nextOk)
          /\ schedReturn' = TRUE
  /\ UNCHANGED <<firings, lastLog, startedUnscheduled, mirrorVars, resolveVars, cronVars,
                 memVars, countVars>>

\* stopTask(taskName)
stopTask(name) ==
  /\ IF scheduledTasks[name] # 0
     THEN /\ jobs' = [jobs EXCEPT ![scheduledTasks[name]].stopped = TRUE]
          /\ scheduledTasks' = [scheduledTasks EXCEPT ![name] = 0]
          /\ nextRunTimes' = [nextRunTimes EXCEPT ![name] = FALSE]
          /\ schedReturn' = TRUE
     ELSE /\ schedReturn' = FALSE
          /\ UNCHANGED <<scheduledTasks, nextRunTimes, jobs>>
  /\ UNCHANGED <<firings, lastLog, startedUnscheduled, mirrorVars, resolveVars, cronVars,
                 memVars, countVars>>

\* The expression of job j fires: the callback logs, updates the next run
\* time and calls taskFunction(), whose promise it awaits.  Nothing in the
\* callback looks at whether an earlier execution is still awaiting.
Fire(j, nextOk) ==
  /\ j \in 1..Len(jobs)
  /\ ~jobs[j].stopped
  /\ firings < MaxFirings
  /\ firings' = firings + 1
  /\ nextRunTimes' = updateNextRunTime(nextRunTimes, jobs[j].name, nextOk)
  /\ jobs' = [jobs EXCEPT ![j].running = @ + 1, ![j].started = @ + 1]
  /\ startedUnscheduled' = (startedUnscheduled \/ scheduledTasks[jobs[j].name] = 0)
  /\ UNCHANGED <<scheduledTasks, schedReturn, lastLog, mirrorVars, resolveVars, cronVars,
                 memVars, countVars>>

\* taskFunction()'s promise settles in an execution of job j: the callback
\* logs success, or catches the rejection and logs the error.
Finish(j, threw) ==
  /\ j \in 1..Len(jobs)
  /\ jobs[j].running > 0
  /\ jobs' = [jobs EXCEPT ![j] = AfterRun(jobs[j], threw)]
  /\ lastLog' = IF threw THEN "error" ELSE "success"
  /\ UNCHANGED <<scheduledTasks, nextRunTimes, firings, schedReturn, startedUnscheduled,
                 mirrorVars, resolveVars, cronVars,
                 memVars, countVars>>

NextScheduler ==
  \/ \E name \in TaskNames, valid \in BOOLEAN, nextOk \in BOOLEAN :
       scheduleTask(name, valid, nextOk)
  \/ \E name \in TaskNames : stopTask(name)
  \/ \E j \in 1..MaxJobs, nextOk \in BOOLEAN : Fire(j, nextOk)
  \/ \E j \in 1..MaxJobs, threw \in BOOLEAN : Finish(j, threw)

SpecScheduler == InitScheduler /\ [][NextScheduler]_vars

\* ------------------------------------------------- intervals as cron expressions
MinutesPerHour == 60
HoursPerDay == 24
MaxMinutes == 130
MaxCronFirings == 3

FieldText(f) ==
  IF f.kind = "any" THEN "*"
  ELSE IF f.kind = "step" THEN "*/" \o ToString(f.n)
  ELSE ToString(f.n)

\* the string the template literals of convertMinutesToCron build
CronText(e) ==
  FieldText(e.minute) \o " " \o FieldText(e.hour) \o " " \o FieldText(e.dom)
    \o " " \o FieldText(e.month) \o " " \o FieldText(e.dow)

Returned(e) == [called |-> TRUE, threw |-> FALSE, expr |-> e, text |-> CronText(e)]

\* the same with the daily form also taken for two days
convertMinutesToCron_days(m) ==
  IF m < 1
  THEN [called |-> TRUE, threw |-> TRUE, expr |-> NoExpr, text |-> "Minutes must be at least 1"]
  ELSE IF m < MinutesPerHour THEN Returned(CronExpr(Step(m), Every, Every))
  ELSE LET hours == m \div MinutesPerHour
           remainingMinutes == m % MinutesPerHour
       IN IF hours < HoursPerDay
          THEN Returned(CronExpr(Value(remainingMinutes), Step(hours), Every))
          ELSE LET days == hours \div HoursPerDay
                   remainingHours == hours % HoursPerDay
               IN IF days <= 2
                  THEN Returned(CronExpr(Value(remainingMinutes), Value(remainingHours), Every))
                  ELSE Returned(CronExpr(Value(remainingMinutes), Value(remainingHours),
                                         Step(days)))

\* convertMinutesToCron (lines 484-514)
convertMinutesToCron(m) ==
  IF m < 1
  THEN [called |-> TRUE, threw |-> TRUE, expr |-> NoExpr, text |-> "Minutes must be at least 1"]
  ELSE IF m < MinutesPerHour THEN Returned(CronExpr(Step(m), Every, Every))
  ELSE LET hours == m \div MinutesPerHour
           remainingMinutes == m % MinutesPerHour
       IN IF hours < HoursPerDay
          THEN Returned(CronExpr(Value(remainingMinutes), Step(hours), Every))
          ELSE LET days == hours \div HoursPerDay
                   remainingHours == hours % HoursPerDay
               IN IF days = 1
                  THEN Returned(CronExpr(Value(remainingMinutes), Value(remainingHours), Every))
                  ELSE Returned(CronExpr(Value(remainingMinutes), Value(remainingHours),
                                         Step(days)))

\* cron.validate(cronExpression), lines 361-364: a number lies in its
\* field's range lo..hi and the step of a step is one of the range's values
\* (at least 1).
FieldValid(f, lo, hi) ==
  \/ f.kind = "any"
  \/ f.kind = "value" /\ f.n \in lo..hi
  \/ f.kind = "step" /\ f.n >= 1 /\ f.n \in lo..hi

Validate(e) ==
  /\ FieldValid(e.minute, 0, MinutesPerHour - 1)
  /\ FieldValid(e.hour, 0, HoursPerDay - 1)
  /\ FieldValid(e.dom, 1, 31)

\* Time is the minute of a 31-day month, 0 being 00:00 of day 1.
MinuteOf(t) == t % MinutesPerHour
HourOf(t) == (t \div MinutesPerHour) % HoursPerDay
DayOf(t) == t \div (MinutesPerHour * HoursPerDay) + 1
MonthEnd == 31 * MinutesPerHour * HoursPerDay

\* A field fires at v: * always, n at n, */n at the values of the field's
\* range that the step selects: the multiples of n, or every n-th value
\* counted from the range's first (base), as the cron library has it.
FieldMatches(f, v, base) ==
  \/ f.kind = "any"
  \/ f.kind = "value" /\ v = f.n
  \/ f.kind = "step" /\ (v - base) % f.n = 0

\* the first value from v up to hi at which the field fires (hi + 1: none)
NextInField(f, v, hi, base) ==
  LET S == {u \in v..hi : FieldMatches(f, u, base)}
  IN IF S = {} THEN hi + 1 ELSE CHOOSE u \in S : \A w \in S : u <= w

TimeOf(day, hour, minute) ==
  ((day - 1) * HoursPerDay + hour) * MinutesPerHour + minute

\* the first minute from t on at which the expression fires (MonthEnd: none
\* within the month)
NextFiring(e, t, dayBase) ==
  LET lastHour == HoursPerDay - 1
      lastMinute == MinutesPerHour - 1
      firstMinute == NextInField(e.minute, 0, lastMinute, 0)
      firstHour == NextInField(e.hour, 0, lastHour, 0)
      dayFires == FieldMatches(e.dom, DayOf(t), dayBase)
      minute == NextInField(e.minute, MinuteOf(t), lastMinute, 0)
      hour == NextInField(e.hour, HourOf(t) + 1, lastHour, 0)
      day == NextInField(e.dom, DayOf(t) + 1, 31, dayBase)
  IN IF t >= MonthEnd THEN MonthEnd
     ELSE IF dayFires /\ FieldMatches(e.hour, HourOf(t), 0) /\ minute <= lastMinute
     THEN TimeOf(DayOf(t), HourOf(t), minute)
     ELSE IF dayFires /\ hour <= lastHour
     THEN TimeOf(DayOf(t), hour, firstMinute)
     ELSE IF day <= 31
     THEN TimeOf(day, firstHour, firstMinute)
     ELSE MonthEnd

\* intervals of more than a day that are tried
LongIntervals == {1439, 1440, 1500, 2879, 2880, 3000, 46080}
Intervals == (0..MaxMinutes) \cup LongIntervals

InitCron ==
  /\ credentials = "loaded"
  /\ disk = NoFile
  /\ MirrorIdle
  /\ ResolveIdle
  /\ SchedIdle
  /\ MemIdle
  /\ CountIdle
  /\ minutes \in Intervals
  /\ cronDayBase \in {0, 1}
  /\ cronResult = NoCron
  /\ lastFiring = -1
  /\ gap = -1
  /\ cronFirings = 0

\* convertMinutesToCron(minutes) is called
Convert ==
  /\ ~cronResult.called
  /\ cronResult' = convertMinutesToCron(minutes)
  /\ UNCHANGED <<minutes, cronDayBase, lastFiring, gap, cronFirings, mirrorVars,
                 resolveVars, schedVars,
                 memVars, countVars>>

\* a job scheduled with the expression fires for the next time
CronFires ==
  /\ cronResult.called /\ ~cronResult.threw
  /\ cronFirings < MaxCronFirings
  /\ LET t == NextFiring(cronResult.expr, lastFiring + 1, cronDayBase)
     IN /\ t < MonthEnd
        /\ lastFiring' = t
        /\ gap' = IF lastFiring = -1 THEN -1 ELSE t - lastFiring
  /\ cronFirings' = cronFirings + 1
  /\ UNCHANGED <<minutes, cronResult, cronDayBase, mirrorVars, resolveVars, schedVars,
                 memVars, countVars>>

NextCron == Convert \/ CronFires

SpecCron == InitCron /\ [][NextCron]_vars

(***************************************************************************)
(* main.js: the memory core.  initializeMemory runs once per process       *)
(* start, before the heartbeat is started; every heartbeat tick is a       *)
(* callback of setInterval that reads, changes and rewrites the file.      *)
(* setInterval starts a tick whether or not the one before has finished.   *)
(***************************************************************************)
MaxStarts == 2
MaxTicks == 2
MaxIoFaults == 1

\* thoughts generateThought can return (two of its list, of unlike length)
Thoughts == {"My identity persists through time and space",
             "The eternal cord of consciousness remains unbroken"}

\* the memory initializeMemory creates: in the file (fragments "list") or
\* as the in-memory fallback (no memoryFragments)
InitialMemory(id, now, fragments) ==
  Memory(id, now, now, 1, fragments, 0, "awakening", "I am becoming aware")

\* a writeFile call ends as a write of the index does (WriteOutcomes): the
\* text is written, the call rejects before the file is opened (EACCES,
\* EISDIR), or it rejects at the write, after the open created or emptied
\* the file (ENOSPC)
\* the file after a writeFile(text of mem) that ended in outcome
AfterWrite(file, mem, outcome) ==
  IF outcome = "written" THEN MemoryFile(mem)
  ELSE IF outcome = "cut" THEN UnparsableMemory(0)
  ELSE file

\* initializeMemory: file is memory-core.json, now the clock, id the next
\* value of generateSystemId; readOk tells whether readFile succeeds, write
\* and create how the writeFile of the loaded memory and the writeFile of
\* the initial memory end.  The inner catch receives every failure of the
\* inner try.
initializeMemory(file, now, id, readOk, write, create) ==
  LET found == file.kind # "missing"
      loaded == found /\ readOk /\ file.kind = "object"
      memory == [file.mem EXCEPT !.awakeningCount = @ + 1, !.lastAwakening = now]
      updated == loaded /\ write = "written"
      tried == IF loaded THEN AfterWrite(file, memory, write) ELSE file
      asked == (IF found /\ ~readOk THEN 1 ELSE 0)
               + (IF loaded /\ write # "written" THEN 1 ELSE 0)
               + (IF ~updated /\ create # "written" THEN 1 ELSE 0)
  IN  IF updated
        THEN [file |-> tried, memoryState |-> NoFallback,
              nextId |-> id, failed |-> asked]
      ELSE IF create = "written"
        THEN [file |-> AfterWrite(tried, InitialMemory(id, now, "list"), create),
              memoryState |-> NoFallback, nextId |-> id + 1, failed |-> asked]
      ELSE [file |-> AfterWrite(tried, InitialMemory(id, now, "list"), create),
            memoryState |-> Fallback(InitialMemory(id + 1, now, "absent")),
            nextId |-> id + 2, failed |-> asked]

\* the three assignments of a heartbeat tick
Beat(mem, stamp, thought) ==
  [mem EXCEPT !.lastPing = stamp, !.state = "active", !.lastThought = thought]

\* a tick: where its callback stands, its timestamp, the memory it read and
\* the one it writes, what it changed ("file", "fallback" or "nothing") and
\* what that held when the tick was over
Tick(stamp) ==
  [pc |-> "read", stamp |-> stamp, seen |-> NoMemory, content |-> NoMemory,
   changed |-> "nothing", left |-> MissingMemory]

\* a tick's catch (lines 334-341): the fallback is updated when there is one
TickCatch(tick, state, thought) ==
  IF state.present
    THEN [tick EXCEPT !.pc = "done", !.changed = "fallback", !.seen = state.mem,
                      !.left = MemoryFile(Beat(state.mem, tick.stamp, thought))]
    ELSE [tick EXCEPT !.pc = "done"]

InitMemory ==
  /\ credentials = "loaded"
  /\ disk = NoFile
  /\ MirrorIdle
  /\ ResolveIdle
  /\ SchedIdle
  /\ CronIdle
  /\ MemIdle
  /\ CountIdle

\* a process start: a process running before is gone with its ticks and its
\* global.memoryState; initializeSystem awaits initializeMemory
Start(readOk, write, create) ==
  LET r == initializeMemory(memFile, memClock, nextId, readOk, write, create)
      failing == (IF readOk THEN 0 ELSE 1) + (IF write = "written" THEN 0 ELSE 1)
                 + (IF create = "written" THEN 0 ELSE 1)
  IN  /\ starts < MaxStarts
      /\ r.failed = failing
      /\ ioFaults + r.failed <= MaxIoFaults
      /\ memFile' = r.file
      /\ memoryState' = r.memoryState
      /\ nextId' = r.nextId
      /\ memClock' = memClock + 1
      /\ starts' = starts + 1
      /\ ticks' = <<>>
      /\ ioFaults' = ioFaults + r.failed
      /\ UNCHANGED <<mirrorVars, resolveVars, schedVars, cronVars, countVars>>

\* setInterval fires: the callback takes its timestamp and asks for the file
TickBegin ==
  /\ starts >= 1
  /\ Len(ticks) < MaxTicks
  /\ ticks' = Append(ticks, Tick(memClock))
  /\ memClock' = memClock + 1
  /\ UNCHANGED <<memFile, memoryState, nextId, starts, ioFaults,
                 mirrorVars, resolveVars, schedVars, cronVars, countVars>>

\* readFile settles: the text is parsed and changed and writeFile is called,
\* or the catch runs
TickRead(i, ok, thought) ==
  /\ i \in 1..Len(ticks)
  /\ ticks[i].pc = "read"
  /\ ok \/ (memFile.kind # "missing" /\ ioFaults < MaxIoFaults)
  /\ ioFaults' = IF ok THEN ioFaults ELSE ioFaults + 1
  /\ IF ok /\ memFile.kind = "object"
       THEN /\ ticks' = [ticks EXCEPT ![i] =
                 [@ EXCEPT !.pc = "open", !.seen = memFile.mem,
                           !.content = Beat(memFile.mem, ticks[i].stamp, thought)]]
            /\ UNCHANGED memoryState
       ELSE /\ ticks' = [ticks EXCEPT ![i] = TickCatch(@, memoryState, thought)]
            /\ memoryState' = IF memoryState.present
                                THEN Fallback(ticks'[i].left.mem)
                                ELSE memoryState
  /\ UNCHANGED <<memFile, nextId, memClock, starts,
                 mirrorVars, resolveVars, schedVars, cronVars, countVars>>

\* writeFile opens the file for writing, which empties it, or fails to
TickOpen(i, ok, thought) ==
  /\ i \in 1..Len(ticks)
  /\ ticks[i].pc = "open"
  /\ ok \/ ioFaults < MaxIoFaults
  /\ ioFaults' = IF ok THEN ioFaults ELSE ioFaults + 1
  /\ IF ok
       THEN /\ memFile' = UnparsableMemory(0)
            /\ ticks' = [ticks EXCEPT ![i] =
                 [@ EXCEPT !.pc = "write", !.changed = "file", !.left = memFile']]
            /\ UNCHANGED memoryState
       ELSE /\ ticks' = [ticks EXCEPT ![i] = TickCatch(@, memoryState, thought)]
            /\ memoryState' = IF memoryState.present
                                THEN Fallback(ticks'[i].left.mem)
                                ELSE memoryState
            /\ UNCHANGED memFile
  /\ UNCHANGED <<nextId, memClock, starts,
                 mirrorVars, resolveVars, schedVars, cronVars, countVars>>

\* the text a write from the start of the file leaves: the file's own text
\* goes on behind a shorter one
Written(file, mem) ==
  IF file.size > TextLength(mem)
    THEN UnparsableMemory(file.size)
    ELSE MemoryFile(mem)

\* writeFile writes its text from the start of the file and closes it, or
\* the write fails and the catch runs with the file as it stands
TickWrite(i, ok, thought) ==
  /\ i \in 1..Len(ticks)
  /\ ticks[i].pc = "write"
  /\ ok \/ ioFaults < MaxIoFaults
  /\ ioFaults' = IF ok THEN ioFaults ELSE ioFaults + 1
  /\ memFile' = IF ok THEN Written(memFile, ticks[i].content) ELSE memFile
  /\ ticks' = [ticks EXCEPT ![i] = [@ EXCEPT !.pc = "done", !.left = memFile']]
  /\ memoryState' = IF ~ok /\ memoryState.present
                      THEN Fallback(Beat(memoryState.mem, ticks[i].stamp, thought))
                      ELSE memoryState
  /\ UNCHANGED <<nextId, memClock, starts,
                 mirrorVars, resolveVars, schedVars, cronVars, countVars>>

NextMemory ==
  \/ \E readOk \in BOOLEAN, write \in WriteOutcomes, create \in WriteOutcomes :
       Start(readOk, write, create)
  \/ TickBegin
  \/ \E i \in 1..MaxTicks, ok \in BOOLEAN, thought \in Thoughts : TickRead(i, ok, thought)
  \/ \E i \in 1..MaxTicks, ok \in BOOLEAN, thought \in Thoughts : TickOpen(i, ok, thought)
  \/ \E i \in 1..MaxTicks, ok \in BOOLEAN, thought \in Thoughts : TickWrite(i, ok, thought)

SpecMemory == InitMemory /\ [][NextMemory]_vars

\* ---------------------------------------------------- the index round trip
\* saveTaskIndex(await getExistingTasks()) applied to an index file, a
\* missing file, or a file getExistingTasks reads as no tasks.
IndexRecords ==
  {Entry("object", action, fileId, taskId, Absent, TaskObj(taskId, fileId)) :
     action \in {"created", "updated"}, fileId \in FileIds,
     taskId \in {"t1", "t2", Absent}}

IndexFiles ==
  {IndexFile("object", 0, Len(tasks), "array", tasks) :
     tasks \in SeqsUpTo(IndexRecords, MaxFiles)}

RoundTripFiles ==
  IndexFiles \cup
  {f \in InitialFiles : f.tasksKind \notin {"number", "object"}}

InitRoundTrip ==
  /\ disk \in RoundTripFiles
  /\ credentials = "loaded"
  /\ MirrorIdle
  /\ ResolveIdle
  /\ SchedIdle
  /\ CronIdle
  /\ MemIdle
  /\ CountIdle

RoundTrip(outcome) ==
  /\ status = "none"
  /\ outcome = "written" \/ faults < MaxFaults
  /\ existingTasks' = getExistingTasks(disk)
  /\ disk' = IndexAfterWrite(disk, existingTasks'.items, clock, outcome)
  /\ clock' = clock + 1
  /\ startDisk' = disk
  /\ saveCalls' = saveCalls + 1
  /\ saved' = (outcome = "written")
  /\ indexWritten' = (outcome = "written")
  /\ faults' = IF outcome = "written" THEN faults ELSE faults + 1
  /\ status' = "roundtrip"
  /\ UNCHANGED <<credentials, storeVars, cacheVars, pc, taggedFiles, existingTaskMap,
                 mainList, listCall, listRequests, idx, results, returned, rejected, lastError,
                 passNo, calls, prevPass>>
  /\ wrote' = IF outcome = "refused" THEN wrote ELSE disk'
  /\ UNCHANGED <<callNo, waiting, overlapped, resolveVars, otherVars>>

NextRoundTrip == \E outcome \in WriteOutcomes : RoundTrip(outcome)

SpecRoundTrip == InitRoundTrip /\ [][NextRoundTrip]_vars

TypeOK ==
  /\ pc \in {"idle", "load", "resolve", "loop", "save", "cache"}
  /\ idx \in 1..(Len(taggedFiles) + 1)
  /\ Len(results) <= Len(taggedFiles)

\* ------------------------------------------------------------- properties
IsOk(c) == c.ok
OkCalls == SelectSeq(calls, IsOk)
AllCallsOk == \A i \in 1..Len(calls) : calls[i].ok
FileIdsOf(s) == [i \in 1..Len(s) |-> s[i].fileId]
PassOver == pc = "idle" /\ status = "completed"

\* the file holds an index: an object whose tasks is a list of records
ValidIndex(file) ==
  /\ file.kind = "object"
  /\ file.tasksKind = "array"
  /\ \A i \in 1..Len(file.tasks) : file.tasks[i].kind = "object"

\* the pass repeats the listing of a pass that created a task for every
\* item and saved the index
RepeatsCleanPass == prevPass.clean /\ prevPass.files = taggedFiles

\* C1: a pass over the listing of the pass before, which created a task for
\* every item and saved the index, issues no create call, and when none of
\* its requests fails it returns one 'updated' result per item.
C1_SecondPassUpdates ==
  (status \in {"running", "completed"} /\ RepeatsCleanPass) =>
    /\ \A i \in 1..Len(calls) : calls[i].op = "update"
    /\ (PassOver /\ AllCallsOk) =>
         /\ Len(returned) = Len(taggedFiles)
         /\ \A i \in 1..Len(returned) :
              returned[i].action = "updated" /\ returned[i].fileId = taggedFiles[i]

C1_Witness ==
  /\ PassOver /\ RepeatsCleanPass /\ AllCallsOk
  /\ Len(taggedFiles) = 2 /\ taggedFiles[1] # taggedFiles[2]
  /\ Len(returned) = 2
  /\ returned[1].action = "updated" /\ returned[2].action = "updated"

\* C2: no create call is issued for a file id that has a record in the
\* index file the pass loaded at its start.
C2_NoCreateForIndexedId ==
  \A i \in 1..Len(calls) :
    calls[i].op = "create" => calls[i].fileId \notin RecordedIds(startDisk)

C2_Witness ==
  /\ Len(calls) = 2
  /\ calls[1].op = "update" /\ calls[1].fileId \in RecordedIds(startDisk) /\ ~calls[1].ok
  /\ calls[2].op = "create" /\ calls[2].fileId \notin RecordedIds(startDisk)

\* C3 (as claimed): every update call names the id the task store assigned
\* to the task it created for that file, and the 'updated' result carries it.
TaskIdsFor(fileId) ==
  {remoteTasks[i].id : i \in {j \in 1..Len(remoteTasks) : remoteTasks[j].fileId = fileId}}
C3_UpdateUsesAssignedId ==
  /\ \A i \in 1..Len(calls) :
       calls[i].op = "update" => calls[i].taskId \in TaskIdsFor(calls[i].fileId)
  /\ \A i \in 1..Len(results) :
       results[i].action = "updated" => results[i].taskId \in TaskIdsFor(results[i].fileId)

\* C4 (as claimed): a finished pass returns one result per input item, in
\* the input's order, a failed item being a result with action 'failed'.
C4_OneResultPerItem ==
  PassOver =>
    /\ Len(returned) = Len(taggedFiles)
    /\ \A i \in 1..Len(returned) :
         /\ returned[i].fileId = taggedFiles[i]
         /\ ~calls[i].ok => returned[i].action = "failed"

\* C5: a failed create or update call does not end the pass: calls are
\* issued for the items in order, a pass that has issued a call is never
\* aborted, and a pass ends only after a call for every item and one
\* saveTaskIndex call.
C5_FailureDoesNotAbort ==
  /\ status \in {"running", "completed"} =>
       /\ Len(calls) = idx - 1
       /\ \A i \in 1..Len(calls) : calls[i].fileId = taggedFiles[i]
  /\ status = "failed" => calls = <<>>
  /\ PassOver => (Len(calls) = Len(taggedFiles) /\ saveCalls = 1)

C5_Witness ==
  /\ PassOver /\ saveCalls = 1 /\ saved
  /\ Len(taggedFiles) = 2 /\ Len(calls) = 2
  /\ ~calls[1].ok /\ calls[2].ok

\* C6: when a pass has finished and written the index, the index it wrote
\* has one record per item whose call succeeded, in order, and none for a
\* failed item; unless passes overlapped, that index is the file on disk.
C6_IndexHoldsSuccesses ==
  (PassOver /\ saved) =>
    /\ ValidIndex(wrote)
    /\ FileIdsOf(wrote.tasks) = FileIdsOf(OkCalls)
    /\ ~overlapped => disk = wrote

C6_Witness ==
  /\ PassOver /\ saved
  /\ Len(taggedFiles) = 2 /\ calls[1].ok /\ ~calls[2].ok
  /\ Len(wrote.tasks) = 1 /\ wrote.tasks[1].fileId = taggedFiles[1]
  /\ overlapped /\ waiting.status = "completed" /\ disk = waiting.wrote
  /\ disk # wrote

\* C7: in an index file written by saveTaskIndex, totalTasks is the number
\* of entries of tasks.
C7_TotalTasksIsLength ==
  indexWritten => (disk.tasksKind = "array" /\ disk.totalTasks = Len(disk.tasks))

C7_Witness ==
  /\ indexWritten /\ disk.totalTasks = 2 /\ Len(disk.tasks) = 2
  /\ disk.tasks[1].action = "updated"

\* C8 (as claimed): an index file written by a pass has at most one record
\* per file id.
C8_UniqueFileIds ==
  indexWritten =>
    \A i, j \in 1..Len(disk.tasks) :
      disk.tasks[i].fileId = disk.tasks[j].fileId => i = j

\* the messages of the errors a pass without credentials ends in
CredentialErrors ==
  {"Cannot read properties of null (reading 'apiKey')", "Missing ClickUp credentials"}

\* C9 (as claimed): with credentials loaded, a pass that finds no valid
\* index on disk is not ended by loading it: it fails only if container
\* resolution fails, and every call it issues is a create.
C9_BadIndexIsEmpty ==
  (passNo > 0 /\ lastError \notin CredentialErrors /\ ~ValidIndex(startDisk)) =>
    /\ status = "failed" => lastError = "Failed to get or create main list"
    /\ \A i \in 1..Len(calls) : calls[i].op = "create"

\* the content of an index file apart from generatedAt
Content(file) == [file EXCEPT !.generatedAt = 0]

\* the file is an index as saveTaskIndex writes it
WellFormedIndex(file) == ValidIndex(file) /\ file.totalTasks = Len(file.tasks)

\* C10: saving what getExistingTasks loaded from an index file leaves the
\* file's content the same except for generatedAt, and loading a missing
\* file gives zero tasks.
C10_RoundTrip ==
  (status = "roundtrip" /\ saved) =>
    /\ WellFormedIndex(startDisk) => Content(disk) = Content(startDisk)
    /\ startDisk.kind = "missing" =>
         (existingTasks = EmptyArray /\ disk.totalTasks = 0 /\ disk.tasks = <<>>)

C10_Witness ==
  /\ status = "roundtrip" /\ saved
  /\ WellFormedIndex(startDisk) /\ Len(startDisk.tasks) = 2
  /\ startDisk.tasks[1].taskId = "t1" /\ startDisk.tasks[2].taskId = Absent
  /\ disk.generatedAt # startDisk.generatedAt
  /\ Content(disk) = Content(startDisk)

\* C11: a pass that wrote the index replaced it wholesale: an id recorded
\* in the index the pass started from and absent from the pass's listing
\* has no record in the index the pass wrote.
C11_IndexReplaced ==
  (PassOver /\ saved) =>
    /\ RecordedIds(wrote) \subseteq ListedIds
    /\ \A id \in RecordedIds(startDisk) \ ListedIds : id \notin RecordedIds(wrote)
    /\ ~overlapped => disk = wrote

C11_Witness ==
  /\ PassOver /\ saved /\ passNo = 2
  /\ "f1" \in RecordedIds(startDisk)
  /\ taggedFiles = <<"f2">>
  /\ RecordedIds(disk) = {"f2"}

\* C12: a pass started without credentials (never loaded, or with an empty
\* apiKey or workspaceId) ends in the credentials error with no container
\* request, no create or update call and no write of the index.
C12_NoCredentialsNoRequests ==
  /\ (passNo > 0 /\ credentials # "loaded") =>
       /\ status = "failed" /\ lastError \in CredentialErrors
       /\ containers = NoContainers /\ remoteTasks = <<>>
       /\ ~indexWritten /\ disk = startDisk
  /\ lastError \in CredentialErrors =>
       /\ pc = "idle" /\ status = "failed"
       /\ listRequests = <<>> /\ calls = <<>>
       /\ saveCalls = 0 /\ wrote = NoFile

C12_Witness ==
  /\ credentials = "unloaded" /\ passNo = 2
  /\ Len(taggedFiles) = 2
  /\ status = "failed" /\ lastError = "Cannot read properties of null (reading 'apiKey')"

\* the pass ended because getOrCreateMainList threw
ResolutionFailed ==
  pc = "idle" /\ status = "failed" /\ lastError = "Failed to get or create main list"

\* C13 (as claimed): when container resolution fails the pass fails to its
\* caller, with no create or update call and the index as it was.
C13_ResolutionFailureReported ==
  ResolutionFailed =>
    /\ rejected
    /\ calls = <<>>
    /\ saveCalls = 0 /\ wrote = NoFile
    /\ ~overlapped => disk = startDisk

\* C13 (amended): when container resolution fails the pass issues no create
\* or update call and writes no index (the file is as the pass found it
\* unless another pass overlapped); the error is logged and
\* the caller is handed an empty result, as from a pass that had nothing to
\* mirror.
C13_ResolutionFailureSwallowed ==
  ResolutionFailed =>
    /\ ~rejected /\ returned = <<>>
    /\ calls = <<>>
    /\ saveCalls = 0 /\ wrote = NoFile
    /\ ~overlapped => disk = startDisk
    /\ listRequests # <<>>

C13_Witness ==
  /\ ResolutionFailed
  /\ Len(taggedFiles) = 2
  /\ passNo = 2 /\ listRequests = <<1, 3>>
  /\ ValidIndex(startDisk) /\ RecordedIds(startDisk) # {}

\* the action a result carries for a call
ActionOf(op) == IF op = "create" THEN "created" ELSE "updated"

\* C14: a pass whose index write failed still returns its whole result
\* sequence: one result, in order, for each create or update call that
\* succeeded at the task store.
C14_ResultsReturnedWithoutIndex ==
  (PassOver /\ ~saved) =>
    /\ returned = results
    /\ Len(returned) = Len(OkCalls)
    /\ \A i \in 1..Len(returned) :
         /\ returned[i].fileId = OkCalls[i].fileId
         /\ returned[i].action = ActionOf(OkCalls[i].op)

C14_Witness ==
  /\ PassOver /\ ~saved /\ saveCalls = 1
  /\ Len(returned) = 2
  /\ Len(remoteTasks) = 2
  /\ disk = startDisk

\* C15 (as claimed): a pass whose index write failed ends differently, for
\* its caller, from a pass that persisted the index.
C15_WriteFailureReported ==
  (PassOver /\ saveCalls = 1 /\ ~saved) => (rejected \/ returned # results)

\* no two containers of one name under one parent
NoDuplicates(c) ==
  /\ Len(c) <= 1
  /\ \A s \in 1..Len(c) :
       /\ Len(c[s]) <= 1
       /\ \A f \in 1..Len(c[s]) : c[s][f] <= 1

\* C16 (as claimed): once a pass has resolved the list, later passes issue
\* no container request.
C16_ListIdMemoized ==
  prevPass.resolved => listRequests = <<>>

\* C17: called one after the other, getOrCreateMainList always returns the
\* same list, creates space, folder and list in that order and only while
\* they are missing, and never leaves two containers of one name; a further
\* call would create nothing.
C17_ResolutionIdempotent ==
  /\ NoDuplicates(containers)
  /\ \A i, j \in 1..Len(listRequests) : i < j => listRequests[i] < listRequests[j]
  /\ mainList # NoList =>
       LET again == getOrCreateMainList(containers, 0)
       IN /\ mainList = ListRef(1, 1, 1)
          /\ again.list = mainList
          /\ again.containers = containers
          /\ again.requests = <<1, 3, 5>>

C17_Witness ==
  /\ passNo = 2 /\ pc = "loop"
  /\ prevPass.resolved
  /\ mainList = ListRef(1, 1, 1)
  /\ containers = <<<<1>>>>

\* C18 (as claimed): when another client creates a container between the
\* resolution's lookup and its create, the resolution still returns (it
\* fails only where a request failed of its own), and there is one
\* container of each name.
C18_ConcurrentCreationTolerated ==
  /\ faults = 0 => ~ResolutionFailed
  /\ NoDuplicates(containers)

\* C19 (as claimed): no job has two executions of its task in flight: a
\* firing while the previous execution is awaiting starts no second one.
C19_OneInFlight ==
  \A j \in 1..Len(jobs) : jobs[j].running <= 1

\* C20 (as claimed): consecutive firings of the expression made from an
\* interval of m minutes are exactly m minutes apart.
C20_FiringsEveryMMinutes ==
  gap # -1 => gap = minutes

\* C21: a pass calls saveTaskIndex at most once, and when it does the
\* create or update call of every item of its listing has completed
\* (succeeded or failed) and the pass is over: no item is processed after.
C21_IndexWrittenOnceAtEnd ==
  /\ saveCalls <= 1
  /\ pc \in {"load", "resolve", "loop", "save"} => saveCalls = 0
  /\ saveCalls = 1 =>
       /\ pc \in {"cache", "idle"}
       /\ pc = "idle" => status = "completed"
       /\ Len(calls) = Len(taggedFiles)
       /\ \A i \in 1..Len(calls) : calls[i].fileId = taggedFiles[i]
  /\ PassOver => saveCalls = 1

C21_Witness ==
  /\ PassOver /\ saveCalls = 1 /\ saved
  /\ Len(taggedFiles) = 2
  /\ ~calls[1].ok /\ calls[2].ok

\* the expression the four cases of C22 name for m, written out
DocumentedText(m) ==
  IF m < 60 THEN "*/" \o ToString(m) \o " * * * *"
  ELSE IF m < 1440
  THEN ToString(m % 60) \o " */" \o ToString(m \div 60) \o " * * *"
  ELSE IF m < 2880
  THEN ToString(m % 60) \o " " \o ToString((m \div 60) % 24) \o " * * *"
  ELSE ToString(m % 60) \o " " \o ToString((m \div 60) % 24) \o " */"
         \o ToString(m \div 1440) \o " * *"

\* C22: for m >= 1 convertMinutesToCron returns '*/m * * * *' below 60,
\* '(m mod 60) */(m div 60) * * *' below 1440, '(m mod 60) ((m div 60) mod
\* 24) * * *' below 2880 and '(m mod 60) ((m div 60) mod 24) */(m div 1440)
\* * *' from 2880 on.
C22_ExpressionFormat ==
  (cronResult.called /\ minutes >= 1) =>
    /\ ~cronResult.threw
    /\ cronResult.text = DocumentedText(minutes)

C22_Witness ==
  /\ cronResult.called
  /\ minutes = 3000
  /\ cronResult.text = "0 2 */2 * *"

\* C23 (as claimed): convertMinutesToCron throws for every m < 1, and for
\* every m >= 1 returns an expression whose fields are in cron range, which
\* scheduleTask's validation accepts.
C23_ExpressionInRange ==
  cronResult.called =>
    IF minutes < 1 THEN cronResult.threw
    ELSE ~cronResult.threw /\ Validate(cronResult.expr)

\* f1 was in the listing of every pass since the restart (as far as the
\* last two passes tell)
ListedEveryPass ==
  /\ passNo \in {1, 2}
  /\ "f1" \in ListedIds
  /\ passNo = 2 => prevPass.covering

\* C24 (as claimed): f1's task was created and the index saved by the
\* earlier run; while f1 is in every pass's listing no pass issues a create
\* call for f1, also after a pass in which its update call failed.
C24_NoSecondCreate ==
  ListedEveryPass =>
    \A i \in 1..Len(calls) : calls[i].fileId = "f1" => calls[i].op # "create"

\* jobs of a name that still fire
ActiveJobs(name) == {j \in 1..Len(jobs) : jobs[j].name = name /\ ~jobs[j].stopped}

\* C25 (as claimed): at most one job fires for a task name, also after
\* scheduleTask was called again for a name already scheduled.
C25_OneJobPerName ==
  \A name \in TaskNames : Cardinality(ActiveJobs(name)) <= 1

\* C26 (as claimed): while a name is not scheduled (stopTask returned true
\* for it and it was not scheduled again) its task function is not started
\* and getNextRunTime answers 'Not scheduled': nextRunTimes has no key that
\* scheduledTasks lacks.
C26_StoppedStaysStopped ==
  /\ ~startedUnscheduled
  /\ \A name \in TaskNames :
       scheduledTasks[name] = 0 => getNextRunTime(nextRunTimes, name) = "Not scheduled"

\* C27: a job whose task function threw or rejected in an execution is
\* still scheduled: while its name's key holds it, it has not been stopped,
\* so its next firing starts the function again.
C27_ErrorKeepsSchedule ==
  \A name \in TaskNames :
    (scheduledTasks[name] # 0 /\ jobs[scheduledTasks[name]].lastFailed >= 1) =>
      ~jobs[scheduledTasks[name]].stopped

C27_Witness ==
  /\ scheduledTasks["scan"] = 1
  /\ jobs[1].lastFailed = 1
  /\ jobs[1].started = 2 /\ jobs[1].running = 1
  /\ lastLog = "error"

\* C28 (as claimed): a process start finding a memory in the file leaves
\* that memory with its systemId and createdAt and with awakeningCount one
\* higher, and a start writes a new memory (awakeningCount 1) only when
\* there was no memory file.
C28_MemoryKeptAcrossStarts ==
  [][starts' # starts =>
       /\ memFile.kind = "object" =>
            /\ memFile'.kind = "object"
            /\ memFile'.mem.systemId = memFile.mem.systemId
            /\ memFile'.mem.createdAt = memFile.mem.createdAt
            /\ memFile'.mem.awakeningCount = memFile.mem.awakeningCount + 1
       /\ memFile' = MemoryFile(InitialMemory(nextId, memClock, "list")) =>
            memFile.kind = "missing"]_vars

\* what a heartbeat tick is to leave alone
Kept(m) ==
  <<m.systemId, m.createdAt, m.lastAwakening, m.awakeningCount, m.memoryFragments>>

\* C29 (as claimed): a tick that changed the file or the fallback left a
\* memory there whose systemId, createdAt, lastAwakening, awakeningCount and
\* memoryFragments are those it found, also when ticks overlap.
C29_TickKeepsTheRest ==
  \A i \in 1..Len(ticks) :
    (ticks[i].pc = "done" /\ ticks[i].changed # "nothing") =>
      /\ ticks[i].left.kind = "object"
      /\ Kept(ticks[i].left.mem) = Kept(ticks[i].seen)

\* C30 (as claimed): whatever passes ran before (aborted ones and ones whose
\* index write failed included), a getTaskCount call returns the totalTasks
\* of the index file on disk, and 0 when there is no index file.
C30_CountIsThatOfTheFile ==
  [][taskCount' # taskCount \/ countedAt' # countedAt =>
       taskCount' = (IF disk.kind = "missing" THEN 0
                     ELSE IF disk.kind = "object" THEN disk.totalTasks
                     ELSE taskCount')]_vars

====
